---- MODULE Spec2Model ----
(***************************************************************************)
(* Model of the ELESS pipeline's resilience core: the manifest ledger      *)
(* (StateManager), the CLI `process` loop, ElessPipeline.run_process and   *)
(* DatabaseLoader.load_data with its per-file success flags.               *)
(*                                                                         *)
(* Spec is the behaviour of runs (`eless process`, run_process) over a     *)
(* shared manifest document and cache; LedgerSpec is the behaviour of a    *)
(* program that constructs a StateManager on the document, which may have  *)
(* been damaged, and calls its operations directly.  ConnSpec is one       *)
(* backend connector used on its own, LoaderSpec a DatabaseLoader that is  *)
(* constructed and closed, ConfigSpec the building of the configuration    *)
(* and BatchSpec one call of process_in_batches.  FaultSpec is a           *)
(* StateManager whose manifest write fails or is cut short, WorkersSpec    *)
(* several StateManagers on one manifest file, CacheSpec the cache store   *)
(* with its eviction.                                                      *)
(*                                                                         *)
(* Abstractions: a file is identified by its hash (an integer); a record's *)
(* timestamp and metadata are left out (no operation modelled here reads   *)
(* them); last_error is modelled by whether it is set (TRUE) or None       *)
(* (FALSE); a cached artifact is modelled by its presence.                 *)
(***************************************************************************)
EXTENDS Integers, Sequences, FiniteSets, TLC

\* ---------------------------------------------------------------- bounds
MaxFiles == 2
MaxTargets == 2
MaxChunks == 2
BatchSize == 2
MaxErrors == 2
MaxIds == 2
MaxCopies == 3
MaxVal == 2
MaxItems == 60
CacheMaxFiles == 3
MaxKeys == 5
MaxWorkers == 2

Files == 1..MaxFiles
Targets == 1..MaxTargets

\* ------------------------------------------------------------ FileStatus
PENDING == "PENDING"
SCANNED == "SCANNED"
CHUNKED == "CHUNKED"
EMBEDDED == "EMBEDDED"
LOADED == "LOADED"
ERROR == "ERROR"

\* paths passed to add_or_update_file
SrcPath == "source"
NAPath == "N/A"
DbLoadedPath == "N/A (DB loaded)"
DbFailedPath == "N/A (DB load failed, vectors retained)"

\* what get_file_info returns for an unknown hash (None)
NoRec == [path |-> "", status |-> "ABSENT", error_count |-> 0, last_error |-> FALSE]

\* ---------------------------------------------------------- StateManager
\* the manifest maps every hash to its record, NoRec standing for "no key"
is_file_known(m, f) == m[f] /= NoRec

get_status_Raw(m, f) == m[f].status

get_status(m, f) == IF is_file_known(m, f) THEN m[f].status ELSE PENDING

get_file_info(m, f) == m[f]

add_or_update_file_LoadedOnlyClears(m, f, file_path, status) ==
  LET r0 == IF is_file_known(m, f) THEN m[f]
            ELSE [path |-> file_path, status |-> PENDING,
                  error_count |-> 0, last_error |-> FALSE]
      r1 == [r0 EXCEPT !.status = status]
      r2 == IF file_path /= "" /\ file_path /= NAPath
            THEN [r1 EXCEPT !.path = file_path] ELSE r1
      r3 == IF status = ERROR
            THEN [r2 EXCEPT !.error_count = @ + 1, !.last_error = TRUE]
            ELSE IF status = LOADED
                 THEN [r2 EXCEPT !.error_count = 0, !.last_error = FALSE]
                 ELSE r2
  IN [m EXCEPT ![f] = r3]

add_or_update_file(m, f, file_path, status) ==
  LET r0 == IF is_file_known(m, f) THEN m[f]
            ELSE [path |-> file_path, status |-> PENDING,
                  error_count |-> 0, last_error |-> FALSE]
      r1 == [r0 EXCEPT !.status = status]
      r2 == IF file_path /= "" /\ file_path /= NAPath
            THEN [r1 EXCEPT !.path = file_path] ELSE r1
      r3 == IF status = ERROR
            THEN [r2 EXCEPT !.error_count = @ + 1, !.last_error = TRUE]
            ELSE IF status \in {LOADED, EMBEDDED}
                 THEN [r2 EXCEPT !.error_count = 0, !.last_error = FALSE]
                 ELSE r2
  IN [m EXCEPT ![f] = r3]

reset_file_status_KeepsErrors(m, f) ==
  IF is_file_known(m, f)
  THEN [m EXCEPT ![f] = [@ EXCEPT !.status = PENDING]]
  ELSE m

reset_file_status_KeepsLastError(m, f) ==
  IF is_file_known(m, f)
  THEN [m EXCEPT ![f] = [@ EXCEPT !.status = PENDING, !.error_count = 0]]
  ELSE m

reset_file_status(m, f) ==
  IF is_file_known(m, f)
  THEN [m EXCEPT ![f] = [@ EXCEPT !.status = PENDING, !.error_count = 0,
                                  !.last_error = FALSE]]
  ELSE m

\* cleanup_orphaned_states(archiver): the records at CHUNKED, EMBEDDED or
\* LOADED for which the archiver has neither chunks nor vectors are deleted;
\* returns the manifest left and the number of records removed.
Orphaned_EitherMissing(m, ch, vec) ==
  {f \in Files : /\ is_file_known(m, f)
                 /\ m[f].status \in {CHUNKED, EMBEDDED, LOADED}
                 /\ (f \notin ch \/ f \notin vec)}

Orphaned(m, ch, vec) ==
  {f \in Files : /\ is_file_known(m, f)
                 /\ m[f].status \in {CHUNKED, EMBEDDED, LOADED}
                 /\ f \notin ch /\ f \notin vec}

cleanup_orphaned_states(m, ch, vec) ==
  [manifest |-> [f \in Files |-> IF f \in Orphaned(m, ch, vec) THEN NoRec ELSE m[f]],
   removed |-> Cardinality(Orphaned(m, ch, vec))]

\* get_error_files(min_error_count)
get_error_files_Exceeds(m, min_error_count) ==
  {f \in Files : is_file_known(m, f) /\ m[f].error_count > min_error_count}

get_error_files(m, min_error_count) ==
  {f \in Files : is_file_known(m, f) /\ m[f].error_count >= min_error_count}

\* The manifest document on disk.  kind: "missing" (no file), "mapping" (a
\* JSON object of hash -> record, `entries` holding its members),
\* "undecodable" (text that is not JSON, e.g. a truncated document),
\* "not_mapping" (JSON that is not an object, e.g. a list) and "not_text"
\* (bytes that are not text in the file's encoding).
NoDoc == [kind |-> "missing", entries |-> {}]

EmptyManifest == [f \in Files |-> NoRec]

\* _save_manifest: json.dump of the whole mapping, one member per known hash
_save_manifest_Empty(m) == [kind |-> "mapping", entries |-> {}]

_save_manifest(m) ==
  [kind |-> "mapping",
   entries |-> {<<f, m[f]>> : f \in {g \in Files : is_file_known(m, g)}}]

\* _load_or_init_manifest, as called by __init__: a missing file and a
\* JSONDecodeError give {}; whatever json.load returns is taken as the
\* manifest (usable only if it is a mapping); any other error propagates.
_load_or_init_manifest(doc) ==
  CASE doc.kind = "mapping" ->
         [raised |-> FALSE, usable |-> TRUE,
          manifest |-> [f \in Files |->
                         IF \E e \in doc.entries : e[1] = f
                         THEN (CHOOSE e \in doc.entries : e[1] = f)[2]
                         ELSE NoRec]]
    [] doc.kind \in {"missing", "undecodable"} ->
         [raised |-> FALSE, usable |-> TRUE, manifest |-> EmptyManifest]
    [] doc.kind = "not_mapping" ->
         [raised |-> FALSE, usable |-> FALSE, manifest |-> EmptyManifest]
    [] OTHER ->
         [raised |-> TRUE, usable |-> FALSE, manifest |-> EmptyManifest]

\* ------------------------------------------- backend connectors (database/)
\* A connector object of one of the four types together with what its
\* backend holds.  handle: "none" = the client / collection / index / conn
\* attribute is None; "ready" = set by a connect() that succeeded; "half" = a
\* connect() raised after the client was assigned (Chroma: a client without
\* a collection; Qdrant: a client whose server did not answer).  store: for
\* each chunk id, the number of stored vectors that were upserted under it.
Kinds == {"chroma", "qdrant", "faiss", "postgresql"}

Ids == 1..MaxIds

EmptyStore == [i \in Ids |-> 0]

NoConn == [kind |-> "none", handle |-> "none", store |-> EmptyStore,
           life |-> "none", op |-> "none", batch |-> {}, ret |-> "",
           prev |-> EmptyStore, again |-> FALSE]

\* the attribute upsert_batch tests before anything else
HasHandle(c) ==
  IF c.kind = "qdrant" THEN c.handle /= "none" ELSE c.handle = "ready"

\* collection.upsert / client.upsert / INSERT .. ON CONFLICT (id) DO UPDATE
upsert_by_id(store, batch) ==
  [i \in Ids |-> IF i \in batch THEN 1 ELSE store[i]]

\* IndexFlatL2.add: the vectors are appended, the index keeps no ids
index_add(store, batch) ==
  [i \in Ids |-> IF i \in batch THEN store[i] + 1 ELSE store[i]]

\* connect(): outcome "ok", or it raises before ("raise_early") or after
\* ("raise_late") the client attribute was assigned
connect(c, outcome) ==
  IF outcome = "ok" THEN [c EXCEPT !.handle = "ready"]
  ELSE IF outcome = "raise_late" /\ c.kind \in {"chroma", "qdrant"}
       THEN [c EXCEPT !.handle = "half"]
       ELSE IF c.kind = "postgresql" THEN [c EXCEPT !.handle = "none"]
       ELSE c

\* check_connection(): Qdrant also asks the server for the collection, which
\* raises when the server does not answer
check_connection(c, answers) ==
  IF c.kind = "qdrant"
  THEN IF c.handle = "none" THEN "False"
       ELSE IF answers THEN "True" ELSE "raised"
  ELSE IF c.handle = "ready" THEN "True" ELSE "False"

close(c) == [c EXCEPT !.handle = "none"]

\* upsert_batch(vectors): batch = the ids of the entries; fault = the backend
\* refuses the write.  Returns the connector and what the call did.
upsert_batch_EmptyFirst(c, batch, fault) ==
  IF batch = {} THEN [c |-> c, ret |-> "ok"]
  ELSE IF ~HasHandle(c) THEN [c |-> c, ret |-> "ConnectionError"]
  ELSE IF fault THEN [c |-> c, ret |-> "Exception"]
  ELSE [c |-> [c EXCEPT !.store = IF c.kind = "faiss" THEN index_add(@, batch)
                                  ELSE upsert_by_id(@, batch)],
        ret |-> "ok"]

upsert_batch(c, batch, fault) ==
  IF ~HasHandle(c) THEN [c |-> c, ret |-> "ConnectionError"]
  ELSE IF batch = {} THEN [c |-> c, ret |-> "ok"]
  ELSE IF fault THEN [c |-> c, ret |-> "Exception"]
  ELSE [c |-> [c EXCEPT !.store = IF c.kind = "faiss" THEN index_add(@, batch)
                                  ELSE upsert_by_id(@, batch)],
        ret |-> "ok"]

\* ------------------------------------- DatabaseLoader as an object of its own
\* What the configuration and the environment give for one target name.
TargetOutcomes == {"ok", "no_config", "no_type", "unknown_type", "unavailable",
                   "connect_raises", "check_raises", "check_false"}

\* phase: "none" = no loader, "built" = the constructor returned, "failed" =
\* the constructor raised, "closed" = close() was called; cfgs: what each
\* target gave; closeFail: the connectors whose close() raises; closed: how
\* many close() calls each connector received; reinit: _initialize_connectors
\* was called again after the constructor, cfgs then being what each target
\* gave in the latest call
NoLoader == [phase |-> "none", cfgs |-> [t \in Targets |-> "ok"],
             active |-> {}, raised |-> FALSE, closeFail |-> {},
             closed |-> [t \in Targets |-> 0], closeRaised |-> FALSE,
             reinit |-> FALSE]

\* ------------------------------------------------ configuration (ConfigLoader)
\* A configuration is modelled by its leaves: leaf -> value, Absent for a key
\* that is not there.
Leaves == {"chunking.chunk_size", "databases.batch_size"}

Absent == 0

Vals == 1..MaxVal

NoLeaves == [l \in Leaves |-> Absent]

\* default: the embedded defaults; hasUser, user: the user's configuration
\* file, if any; opts: the values given on the command line; via: who
\* called get_final_config; out: what it returned
NoCfg == [default |-> [l \in Leaves |-> 1], hasUser |-> FALSE,
          user |-> NoLeaves, opts |-> NoLeaves, via |-> "none",
          out |-> NoLeaves]

\* deep_merge(target, source): a key of source replaces the one of target,
\* dictionaries are merged key by key
deep_merge(target, source) ==
  [l \in Leaves |-> IF source[l] /= Absent THEN source[l] ELSE target[l]]

\* get_final_config(user_config_path, **cli_args): user = the content of the
\* file at user_config_path (NoLeaves for None); kw_chunk_size = the keyword
\* argument chunk_size; kw_sections = the keyword arguments named after
\* configuration sections (chunking={..}, databases={..}), which lines 90-95
\* never read.
get_final_config(default, user, kw_chunk_size, kw_sections) ==
  LET cli_overrides == [l \in Leaves |->
                         IF l = "chunking.chunk_size" THEN kw_chunk_size
                         ELSE Absent]
  IN deep_merge(deep_merge(default, user), cli_overrides)

\* ----------------------------------------- adaptive batching (streaming)
\* BatchProcessor.process_in_batches(items, processor_fn) and
\* ResourceMonitor's recommended batch size.  The items are numbered 1..n;
\* a batch is the pair <<first, last>> of the items it holds.
\* n: the number of items; pos: the items dispatched so far; batches, levels:
\* the batches dispatched and the pressure level found before each; asked:
\* the queries of the recommended size; calls: the calls of processor_fn.
Levels == {"NONE", "WARNING", "CRITICAL"}

BaseBatch == 100

ReductionPerLevel == 2

NoBp == [n |-> 0, pos |-> 0, batches |-> <<>>, levels |-> <<>>,
         asked |-> 0, calls |-> 0, done |-> FALSE]

Min(a, b) == IF a <= b THEN a ELSE b

\* the base size divided by ReductionPerLevel once per pressure level above
\* NONE, never below 1
recommended_batch_size_IgnoresPressure(base, level) == base

recommended_batch_size(base, level) ==
  LET r == CASE level = "NONE" -> base
             [] level = "WARNING" -> base \div ReductionPerLevel
             [] OTHER -> base \div (ReductionPerLevel * ReductionPerLevel)
  IN IF r < 1 THEN 1 ELSE r

\* ------------------------------------------------------------- variables
\* ---------------------------------------------------------------------
\* A manifest write that does not complete.  _save_manifest opens the file
\* with mode 'w', which empties it, and then dumps the whole mapping into
\* it: until the dump is complete the file holds no decodable document.

SavePoints == {"before_open", "mid_write", "after_close"}

interrupted_save(old, m, at) ==
  CASE at = "before_open" -> old
    [] at = "mid_write"   -> [kind |-> "undecodable", entries |-> {}]
    [] OTHER              -> _save_manifest(m)

NoWrite == [kind |-> "none", before |-> NoDoc, after |-> NoDoc]

\* ---------------------------------------------------------------------
\* The cache store (SmartCacheManager): the artifacts in order of last
\* access, least recently accessed first.

Keys == 1..MaxKeys

\* the workers, each with its own StateManager on the one manifest file
Workers == 1..MaxWorkers

\* the share of the ceiling that eviction brings the usage down to
WatermarkPercent == 90

target_watermark(max_files) == (max_files * WatermarkPercent) \div 100

NoCache == [order |-> <<>>, op |-> "none", before |-> <<>>,
            asked |-> FALSE, evicted |-> <<>>]

NoWorkers == [w \in Workers |-> [open |-> FALSE, manifest |-> EmptyManifest,
                                 f |-> 0, status |-> ""]]

Stored(order) == {order[i] : i \in 1..Len(order)}

Without(order, k) == SelectSeq(order, LAMBDA x : x /= k)

\* storing or reading an artifact makes it the most recently accessed
touch(order, k) == Append(Without(order, k), k)

should_evict(order) == Len(order) > CacheMaxFiles

\* how many artifacts an eviction removes: down to the watermark
evict_count(order) ==
  IF Len(order) > target_watermark(CacheMaxFiles)
  THEN Len(order) - target_watermark(CacheMaxFiles)
  ELSE 0

evict_lru_items_MostRecentFirst(order) ==
  LET n == evict_count(order) IN
  [evicted |-> [i \in 1..n |-> order[Len(order) + 1 - i]],
   order   |-> SubSeq(order, 1, Len(order) - n)]

\* evict(): the least recently accessed artifacts leave first
evict_lru_items(order) ==
  LET n == evict_count(order) IN
  [evicted |-> SubSeq(order, 1, n),
   order   |-> SubSeq(order, n + 1, Len(order))]

VARIABLES
  manifest,   \* StateManager.manifest: hash -> record (in memory)
  durable,    \* the manifest document on disk
  chunks,     \* hashes that have a chunk artifact in the cache
  vectors,    \* hashes that have a vector artifact in the cache
  active,     \* DatabaseLoader.active_connectors (names) of the running loader
  pc,         \* "idle" | "cli" | "pipe" | "done"
  run,        \* bookkeeping of the current run
  last,       \* what the last iteration of the CLI loop did
  ld,         \* locals of the load_data call in progress
  call,       \* the last direct call of a StateManager operation
  cx,         \* a backend connector object and the vectors its backend holds
  loader,     \* a DatabaseLoader object and its last close()
  cfg,        \* the inputs and the result of a configuration merge
  bp,         \* the locals of a process_in_batches call
  cs,         \* the cache store: its artifacts in order of last access
  wk,         \* the StateManager objects of concurrent workers
  wr          \* the last manifest write that did not complete

vars == <<manifest, durable, chunks, vectors, active, pc, run, last, ld, call,
          cx, loader, cfg, bp, cs, wk, wr>>

\* the objects no run and no StateManager call touches
aux == <<cx, loader, cfg, bp, cs, wk, wr>>

\* the state of the runs and of the ledger
runVars == <<manifest, durable, chunks, vectors, active, pc, run, last, ld, call>>

\* op: the operation; f, arg, t: its arguments (hash, status, threshold);
\* ret, n, files: what it returned (a value or "raised", a count, a list)
NoCall == [op |-> "none", f |-> 0, arg |-> "", t |-> 0,
           ret |-> "", n |-> 0, files |-> {}]

NoRun == [kind |-> "none", i |-> 0, resume |-> FALSE, ended |-> "",
          ok |-> {}, bad |-> {}, allLoaded0 |-> FALSE, wroteAny |-> FALSE,
          success_count |-> 0, error_count |-> 0]

NoLast == [f |-> 0, st0 |-> "", st1 |-> "", ec0 |-> 0, ec1 |-> 0,
           recSame |-> TRUE, resume |-> FALSE,
           hadChunks |-> FALSE, hadVectors |-> FALSE,
           chunkCalled |-> FALSE, chunkSrc |-> "none",
           embedCalled |-> FALSE, vecSrc |-> "none",
           wrote |-> {}, acc |-> {}, result |-> ""]

NoLoad == [batch |-> <<>>, flags |-> [f \in Files |-> "none"],
           cur |-> 0, pend |-> 0, raised |-> {}, missed |-> {},
           retried |-> {}, seen |-> <<>>, sent |-> <<>>,
           calls |-> [t \in Targets |-> 0]]

Stages == {PENDING, SCANNED, CHUNKED, EMBEDDED, LOADED, ERROR}

Records == [path : {SrcPath, NAPath, DbLoadedPath, DbFailedPath},
            status : Stages, error_count : Nat, last_error : BOOLEAN]

Results == {"skipped", "exception", "no_chunks", "embed_raised", "embed_empty",
            "no_vectors", "loaded", "partial", "interrupted"}

TypeOK ==
  /\ manifest \in [Files -> Records \cup {NoRec}]
  /\ durable.kind \in {"missing", "mapping"}
  /\ _load_or_init_manifest(durable).manifest = manifest
  /\ chunks \subseteq Files
  /\ vectors \subseteq Files
  /\ active \subseteq Targets
  /\ pc \in {"idle", "cli", "pipe", "done"}
  /\ run.kind \in {"none", "cli", "pipe", "resume"}
  /\ run.i \in 0..(MaxFiles + 1)
  /\ run.ok \subseteq Files /\ run.bad \subseteq Files
  /\ run.success_count \in 0..MaxFiles /\ run.error_count \in 0..MaxFiles
  /\ last.f \in {0} \cup Files
  /\ last.result \in {""} \cup Results
  /\ last.acc \subseteq last.wrote /\ last.wrote \subseteq Targets
  /\ Len(ld.batch) < BatchSize
  /\ ld.flags \in [Files -> {"none", "T", "F"}]
  /\ ld.pend \in 0..MaxChunks

\* no run, no StateManager and an empty cache
Idle ==
  /\ manifest = EmptyManifest
  /\ durable = NoDoc
  /\ call = NoCall
  /\ chunks = {}
  /\ vectors = {}
  /\ active = {}
  /\ pc = "idle"
  /\ run = NoRun
  /\ last = NoLast
  /\ ld = NoLoad

Init ==
  /\ Idle
  /\ cs = NoCache
  /\ wk = NoWorkers
  /\ wr = NoWrite
  /\ cx = NoConn
  /\ loader = NoLoader
  /\ cfg = NoCfg
  /\ bp = NoBp

\* ------------------------------------------------ cache (Archiver) reads
load_chunks(ch, f) == f \in ch

load_vectors(vec, f) == f \in vec

\* ------------------------------------------- the CLI `process` file loop
\* Outcomes of the external capabilities: the chunker and the embedder
\* return a non-empty result ("ok"), an empty one ("empty") or raise.
Outcomes == {"ok", "empty", "raise"}

\* Points at which the process can be interrupted inside one iteration
\* (KeyboardInterrupt is not an Exception: the per-file handler lets it go).
IntrPoints == {"none", "after_chunk", "after_chunked", "after_embed",
               "after_upsert"}

SkipLoaded_Never(status) == FALSE

SkipLoaded(status) == status = LOADED

NeedsChunking_AlsoChunked(status, resume) ==
  status \in {PENDING, CHUNKED} \/ (status = EMBEDDED /\ ~resume)

NeedsChunking(status, resume) ==
  status = PENDING \/ (status = EMBEDDED /\ ~resume)

NeedsEmbedding_Always(status) == TRUE

NeedsEmbedding(status) == status /= EMBEDDED

\* dispatcher.parse_and_chunk: runs the chunker and stores the chunks it
\* produced in the cache; it does not touch the ledger.
parse_and_chunk(ch, f, chunkOut) == IF chunkOut = "ok" THEN ch \cup {f} ELSE ch

\* embedder.embed_file_chunks: embeds the chunks, stores the vectors and
\* commits stage EMBEDDED (the CLI loop never sets EMBEDDED itself).
embed_file_chunks(s, f, embedOut) ==
  IF embedOut = "ok"
  THEN [s EXCEPT !.vec = @ \cup {f},
                 !.m = add_or_update_file(@, f, NAPath, EMBEDDED)]
  ELSE s

\* Step 1 (cli.py 354-391): obtain the chunks.
CliStepChunk(s, f, status, resume, chunkOut, intr) ==
  IF NeedsChunking(status, resume)
  THEN IF chunkOut = "raise"
       THEN [s EXCEPT !.chunkCalled = TRUE, !.stop = "exception"]
       ELSE LET s1 == [s EXCEPT !.chunkCalled = TRUE, !.chunkSrc = "chunker",
                                !.ch = parse_and_chunk(@, f, chunkOut)]
                s2 == [s1 EXCEPT !.m = add_or_update_file(@, f, SrcPath, CHUNKED)]
            IN IF intr = "after_chunk" THEN [s1 EXCEPT !.stop = "interrupted"]
               ELSE IF intr = "after_chunked" THEN [s2 EXCEPT !.stop = "interrupted"]
               ELSE IF chunkOut = "empty" THEN [s2 EXCEPT !.stop = "no_chunks"]
               ELSE s2
  ELSE IF load_chunks(s.ch, f)
       THEN [s EXCEPT !.chunkSrc = "cache"]
       ELSE [s EXCEPT !.stop = "no_chunks"]

\* Step 2 (cli.py 395-446): obtain the vectors.
CliStepEmbed(s, f, status, embedOut, intr) ==
  IF s.stop /= "" THEN s
  ELSE IF NeedsEmbedding(status)
  THEN IF embedOut = "raise"
       THEN [s EXCEPT !.embedCalled = TRUE, !.stop = "embed_raised"]
       ELSE IF embedOut = "empty"
       THEN [s EXCEPT !.embedCalled = TRUE, !.stop = "embed_empty"]
       ELSE LET s1 == [embed_file_chunks(s, f, embedOut)
                         EXCEPT !.embedCalled = TRUE, !.vecSrc = "embedder"]
            IN IF intr = "after_embed" THEN [s1 EXCEPT !.stop = "interrupted"]
               ELSE s1
  ELSE IF load_vectors(s.vec, f)
       THEN [s EXCEPT !.vecSrc = "cache"]
       ELSE [s EXCEPT !.stop = "no_vectors"]

\* Step 3 (cli.py 448-497): upsert into every connector, final checkpoint.
CliStepLoad(s, f, conns, okSet, intr) ==
  IF s.stop /= "" THEN s
  ELSE LET accepted == conns \cap okSet
           all_success == accepted = conns
       IN IF intr = "after_upsert"
          THEN [s EXCEPT !.wrote = conns, !.acc = accepted, !.stop = "interrupted"]
          ELSE IF all_success
          THEN [s EXCEPT !.wrote = conns, !.acc = accepted, !.stop = "loaded",
                         !.m = add_or_update_file(@, f, SrcPath, LOADED)]
          ELSE [s EXCEPT !.wrote = conns, !.acc = accepted, !.stop = "partial"]

\* One iteration of the loop body (cli.py 334-502).
CliIteration(m, ch, vec, conns, f, resume, chunkOut, embedOut, okSet, intr) ==
  LET status == get_status(m, f)
      s0 == [m |-> m, ch |-> ch, vec |-> vec, stop |-> "",
             chunkCalled |-> FALSE, chunkSrc |-> "none",
             embedCalled |-> FALSE, vecSrc |-> "none",
             wrote |-> {}, acc |-> {}]
  IN IF SkipLoaded(status)
     THEN [s0 EXCEPT !.stop = "skipped"]
     ELSE CliStepLoad(
            CliStepEmbed(
              CliStepChunk(s0, f, status, resume, chunkOut, intr),
              f, status, embedOut, intr),
            f, conns, okSet, intr)

\* After an iteration the loop goes on to the next file: every early exit of
\* the body is a `continue`, and the handler at 499-502 catches Exception.
\* Only an interrupt of the process leaves the loop.
LoopContinues_Propagates(result) == result \notin {"interrupted", "exception"}

LoopContinues(result) == result /= "interrupted"

\* `eless process`: configuration, DBFactory construction and scan
\* (cli.py 124-328).  conn = the targets that connect and pass the check.
_initialize_connectors(prev, conn) == prev \cup conn

\* `if not db_connectors: return` (cli.py 306-311) and
\* `if not self.active_connectors: return` (db_loader.py 191-195)
NoBackend_Never(conns) == FALSE

NoBackend(conns) == conns = {}

CliStart(resume, conn) ==
  /\ pc = "idle"
  /\ manifest' = _load_or_init_manifest(durable).manifest
  /\ active' = _initialize_connectors({}, conn)
  /\ IF NoBackend(active')
     THEN /\ pc' = "done"
          /\ run' = [NoRun EXCEPT !.kind = "cli", !.resume = resume,
                                  !.ended = "fatal"]
     ELSE /\ pc' = "cli"
          /\ run' = [NoRun EXCEPT !.kind = "cli", !.i = 1, !.resume = resume,
                       !.allLoaded0 = \A f \in Files : get_status(manifest', f) = LOADED]
  /\ UNCHANGED <<durable, chunks, vectors, last, ld, call, aux>>

\* the ways an iteration ends with `success_count += 1` (LOADED found and
\* skipped, or every connector accepted) and with `error_count += 1`; the
\* `continue` for cached vectors that are missing adds to neither
CountsSuccess(stop) == stop \in {"skipped", "loaded"}

CountsError(stop) ==
  stop \in {"exception", "no_chunks", "embed_raised", "embed_empty", "partial"}

CliFile(chunkOut, embedOut, okSet, intr) ==
  /\ pc = "cli"
  /\ run.i \in Files
  /\ LET f == run.i
         r == CliIteration(manifest, chunks, vectors, active, f, run.resume,
                           chunkOut, embedOut, okSet, intr)
         interrupted == r.stop = "interrupted"
         stops == ~LoopContinues(r.stop)
     IN \* an input the iteration never consulted is fixed to its default
        /\ okSet \subseteq active
        /\ r.chunkCalled \/ chunkOut = "ok"
        /\ r.embedCalled \/ embedOut = "ok"
        /\ r.wrote /= {} \/ okSet = {}
        /\ interrupted \/ intr = "none"
        /\ manifest' = r.m
        /\ durable' = IF r.m /= manifest THEN _save_manifest(r.m) ELSE durable
        /\ chunks' = r.ch
        /\ vectors' = r.vec
        /\ last' = [f |-> f,
                    st0 |-> get_file_info(manifest, f).status,
                    st1 |-> get_file_info(r.m, f).status,
                    ec0 |-> get_file_info(manifest, f).error_count,
                    ec1 |-> get_file_info(r.m, f).error_count,
                    recSame |-> get_file_info(r.m, f) = get_file_info(manifest, f),
                    resume |-> run.resume,
                    hadChunks |-> load_chunks(chunks, f),
                    hadVectors |-> load_vectors(vectors, f),
                    chunkCalled |-> r.chunkCalled, chunkSrc |-> r.chunkSrc,
                    embedCalled |-> r.embedCalled, vecSrc |-> r.vecSrc,
                    wrote |-> r.wrote, acc |-> r.acc, result |-> r.stop]
        /\ run' = [run EXCEPT
                     !.i = IF stops THEN @ ELSE @ + 1,
                     !.ok = IF r.stop = "loaded" THEN @ \cup {f} ELSE @,
                     !.bad = IF r.stop \in {"skipped", "loaded", "interrupted"}
                             THEN @ ELSE @ \cup {f},
                     !.wroteAny = @ \/ r.wrote /= {},
                     !.success_count = IF CountsSuccess(r.stop) THEN @ + 1 ELSE @,
                     !.error_count = IF CountsError(r.stop) THEN @ + 1 ELSE @,
                     !.ended = IF stops THEN "interrupt"
                               ELSE IF f = MaxFiles THEN "normal" ELSE @]
        /\ pc' = IF stops \/ f = MaxFiles THEN "done" ELSE "cli"
  /\ UNCHANGED <<active, ld, call, aux>>

\* The process (or the run_process call) is over: its locals are gone.
Return ==
  /\ pc = "done"
  /\ pc' = "idle"
  /\ active' = {}
  /\ run' = NoRun
  /\ last' = NoLast
  /\ ld' = NoLoad
  /\ UNCHANGED <<manifest, durable, chunks, vectors, call, aux>>

\* state_manager.reset_file_status(f) on a known hash, between runs
ResetFile(f) ==
  /\ pc = "idle"
  /\ is_file_known(manifest, f)
  /\ manifest' = reset_file_status(manifest, f)
  /\ durable' = _save_manifest(manifest')
  /\ UNCHANGED <<chunks, vectors, active, pc, run, last, ld, call, aux>>

\* `eless cache --evict`: an artifact leaves the cache (cli.py 996-1006)
CacheEvict(f, kind) ==
  /\ pc = "idle"
  /\ \/ kind = "chunks" /\ f \in chunks /\ chunks' = chunks \ {f}
        /\ UNCHANGED vectors
     \/ kind = "vectors" /\ f \in vectors /\ vectors' = vectors \ {f}
        /\ UNCHANGED chunks
  /\ UNCHANGED <<manifest, durable, active, pc, run, last, ld, call, aux>>

\* ------------------------------------------- DatabaseLoader (db_loader.py)
Range(q) == {q[k] : k \in 1..Len(q)}

\* load_data line 217: file_hashes_in_run[h] = file_hashes_in_run.get(h, True)
MarkSeen_Overwrite(flags, f) == [flags EXCEPT ![f] = "T"]

MarkSeen(flags, f) == [flags EXCEPT ![f] = IF @ = "none" THEN "T" ELSE @]

\* _upsert_batch: fan-out to every active connector; the connectors in
\* `fail` raise, which marks every file of the batch as not fully loaded.
_upsert_batch(flags, batch, conns, fail) ==
  IF conns \cap fail /= {}
  THEN [f \in Files |-> IF f \in Range(batch) THEN "F" ELSE flags[f]]
  ELSE flags

\* _update_file_status: LOADED for the flags still true, EMBEDDED otherwise.
_update_one(m, f, flag) ==
  IF flag = "T" THEN add_or_update_file(m, f, DbLoadedPath, LOADED)
  ELSE IF flag = "F" THEN add_or_update_file(m, f, DbFailedPath, EMBEDDED)
  ELSE m

RECURSIVE _update_file_status(_, _, _)
_update_file_status(m, flags, todo) ==
  IF todo = {} THEN m
  ELSE LET f == CHOOSE x \in todo : \A y \in todo : x <= y
       IN _update_file_status(_update_one(m, f, flags[f]), flags, todo \ {f})

\* _upsert_batch lines 241-250: the connectors whose upsert_batch is called
\* with the batch; the try is inside the loop, so a connector that raises
\* does not end the loop.
FanOut_StopsAtFirstRaise(conns, fail) ==
  {t \in conns : \A d \in conns \cap fail : t <= d}

FanOut(conns, fail) == conns

\* bookkeeping of a flushed batch: which files saw a raising connector
\* (raised), which files have a configured target that did not accept the
\* batch (missed), which files were, after such a raise, part of a batch
\* that every connector accepted (retried), the batches flushed so far
\* (sent) and how many upsert_batch calls each connector received (calls)
Flushed(l, batch, conns, fail) ==
  [l EXCEPT !.batch = <<>>,
            !.sent = Append(@, batch),
            !.calls = [t \in Targets |->
                        IF t \in FanOut(conns, fail) THEN @[t] + 1 ELSE @[t]],
            !.flags = _upsert_batch(@, batch, conns, fail),
            !.raised = IF conns \cap fail /= {} THEN @ \cup Range(batch) ELSE @,
            !.missed = IF conns \ fail /= Targets THEN @ \cup Range(batch) ELSE @,
            !.retried = IF conns \cap fail = {}
                        THEN @ \cup (l.raised \cap Range(batch)) ELSE @]

\* ------------------------------------- ElessPipeline.run_process and its
\* per-file stages (Dispatcher.process_document, then
\* Embedder.embed_and_archive_chunks): a file that is LOADED or ERROR yields
\* nothing; otherwise the missing stages run, a failure is recorded as ERROR
\* and the file yields nothing.
DocChunk(s, f, status, chunkOut) ==
  IF status = PENDING
  THEN IF chunkOut = "ok"
       THEN [s EXCEPT !.chunkCalled = TRUE, !.ch = @ \cup {f},
                      !.m = add_or_update_file(@, f, SrcPath, CHUNKED)]
       ELSE [s EXCEPT !.chunkCalled = TRUE, !.failed = TRUE,
                      !.m = add_or_update_file(@, f, SrcPath, ERROR)]
  ELSE IF load_chunks(s.ch, f) THEN s
  ELSE [s EXCEPT !.failed = TRUE,
                 !.m = add_or_update_file(@, f, SrcPath, ERROR)]

DocEmbed(s, f, status, embedOut) ==
  IF s.failed THEN s
  ELSE IF status = EMBEDDED
  THEN IF load_vectors(s.vec, f) THEN s
       ELSE [s EXCEPT !.failed = TRUE,
                      !.m = add_or_update_file(@, f, NAPath, ERROR)]
  ELSE IF embedOut = "ok"
       THEN [s EXCEPT !.embedCalled = TRUE, !.vec = @ \cup {f},
                      !.m = add_or_update_file(@, f, NAPath, EMBEDDED)]
       ELSE [s EXCEPT !.embedCalled = TRUE, !.failed = TRUE,
                      !.m = add_or_update_file(@, f, NAPath, ERROR)]

process_document(m, ch, vec, f, chunkOut, embedOut) ==
  LET status == get_status(m, f)
      s0 == [m |-> m, ch |-> ch, vec |-> vec, failed |-> FALSE,
             skipped |-> FALSE, chunkCalled |-> FALSE, embedCalled |-> FALSE]
  IN IF status \in {LOADED, ERROR}
     THEN [s0 EXCEPT !.skipped = TRUE]
     ELSE DocEmbed(DocChunk(s0, f, status, chunkOut), f, status, embedOut)

\* run_process lines 63-68: the connectors are initialised again on the
\* loader the constructor built (prev = what the constructor left active).
PipeStart(prev, conn) ==
  /\ pc = "idle"
  /\ manifest' = _load_or_init_manifest(durable).manifest
  /\ active' = _initialize_connectors(prev, conn)
  /\ IF NoBackend(active')
     THEN \* load_data returns at once: the generators are never consumed
          /\ pc' = "done"
          /\ run' = [NoRun EXCEPT !.kind = "pipe", !.ended = "nodb"]
     ELSE /\ pc' = "pipe"
          /\ run' = [NoRun EXCEPT !.kind = "pipe", !.i = 1]
  /\ UNCHANGED <<durable, chunks, vectors, last, ld, call, aux>>

\* load_data asks for the next entry and the generators advance to the next
\* file: it yields n entries, or none.
PipeFile(chunkOut, embedOut, n) ==
  /\ pc = "pipe"
  /\ ld.pend = 0
  /\ run.i \in Files
  /\ LET f == run.i
         r == process_document(manifest, chunks, vectors, f, chunkOut, embedOut)
         yields == ~r.skipped /\ ~r.failed
     IN \* an input the stages never consulted is fixed to its default
        /\ r.chunkCalled \/ chunkOut = "ok"
        /\ r.embedCalled \/ embedOut = "ok"
        /\ yields \/ n = 1
        /\ manifest' = r.m
        /\ durable' = IF r.m /= manifest THEN _save_manifest(r.m) ELSE durable
        /\ chunks' = r.ch
        /\ vectors' = r.vec
        /\ ld' = [ld EXCEPT !.cur = f, !.pend = IF yields THEN n ELSE 0]
        /\ run' = [run EXCEPT !.i = @ + 1,
                              !.ok = IF yields THEN @ \cup {f} ELSE @,
                              !.bad = IF r.failed THEN @ \cup {f} ELSE @]
  /\ UNCHANGED <<active, pc, last, call, aux>>

\* load_data lines 203-222: one entry of the stream is consumed.
LoadEntry(fail) ==
  /\ pc = "pipe"
  /\ ld.pend > 0
  /\ fail \subseteq active
  /\ LET f == ld.cur
         batch == Append(ld.batch, f)
         l1 == [ld EXCEPT !.pend = @ - 1, !.batch = batch,
                          !.seen = Append(@, f),
                          !.flags = MarkSeen(@, f)]
     IN IF Len(batch) >= BatchSize
        THEN /\ ld' = Flushed(l1, batch, active, fail)
             /\ run' = [run EXCEPT !.wroteAny = TRUE]
        ELSE /\ fail = {}
             /\ ld' = l1
             /\ run' = run
  /\ UNCHANGED <<manifest, durable, chunks, vectors, active, pc, last, call, aux>>

\* load_data lines 224-230 and run_process's finally: the stream is
\* exhausted, the partial batch is flushed and the ledger is updated.
LoadFinish(fail) ==
  /\ pc = "pipe"
  /\ ld.pend = 0
  /\ run.i = MaxFiles + 1
  /\ fail \subseteq active
  /\ LET l1 == IF ld.batch /= <<>>
               THEN Flushed(ld, ld.batch, active, fail) ELSE ld
     IN /\ ld.batch = <<>> => fail = {}
        /\ ld' = l1
        /\ manifest' = _update_file_status(manifest, l1.flags, Files)
        /\ durable' = IF \E f \in Files : l1.flags[f] /= "none"
                      THEN _save_manifest(manifest') ELSE durable
        /\ run' = [run EXCEPT !.ended = "normal",
                              !.wroteAny = @ \/ ld.batch /= <<>>]
  /\ pc' = "done"
  /\ UNCHANGED <<chunks, vectors, active, last, call, aux>>

\* load_data when the embedded-chunk stream raises at line 203 (a stage
\* raised, or the process was interrupted): the exception leaves load_data,
\* lines 224-229 are not reached, and run_process's handlers and finally
\* (lines 90-104) do not touch the ledger.
load_data_aborted_Finalises(m, flags) == _update_file_status(m, flags, Files)

load_data_aborted(m, flags) == m

PipeAbort ==
  /\ pc = "pipe"
  /\ manifest' = load_data_aborted(manifest, ld.flags)
  /\ durable' = IF manifest' /= manifest THEN _save_manifest(manifest')
                ELSE durable
  /\ run' = [run EXCEPT !.ended = "aborted"]
  /\ pc' = "done"
  /\ UNCHANGED <<chunks, vectors, active, last, ld, call, aux>>

\* ElessPipeline(config).run_resume(): the constructor loads the ledger and
\* initialises the connectors (eless_pipeline.py 29-50); run_resume itself
\* (106-126) writes two log lines and returns.
RunResume(conn) ==
  /\ pc = "idle"
  /\ manifest' = _load_or_init_manifest(durable).manifest
  /\ active' = _initialize_connectors({}, conn)
  /\ run' = [NoRun EXCEPT !.kind = "resume", !.ended = "normal"]
  /\ pc' = "done"
  /\ UNCHANGED <<durable, chunks, vectors, last, ld, call, aux>>

Next ==
  \/ \E resume \in BOOLEAN, conn \in SUBSET Targets : CliStart(resume, conn)
  \/ \E chunkOut \in Outcomes, embedOut \in Outcomes,
        okSet \in SUBSET Targets, intr \in IntrPoints :
       CliFile(chunkOut, embedOut, okSet, intr)
  \/ \E prev \in SUBSET Targets, conn \in SUBSET Targets : PipeStart(prev, conn)
  \/ \E chunkOut \in Outcomes, embedOut \in Outcomes, n \in 1..MaxChunks :
       PipeFile(chunkOut, embedOut, n)
  \/ \E fail \in SUBSET Targets : LoadEntry(fail)
  \/ \E fail \in SUBSET Targets : LoadFinish(fail)
  \/ PipeAbort
  \/ \E conn \in SUBSET Targets : RunResume(conn)
  \/ Return
  \/ \E f \in Files : ResetFile(f)
  \/ \E f \in Files, kind \in {"chunks", "vectors"} : CacheEvict(f, kind)

Spec == Init /\ [][Next]_vars


\* ------------------------------------------ direct use of a StateManager:
\* a program constructs a StateManager on the manifest document and calls
\* its operations one at a time (pc = "sm": the object is alive; "broken":
\* the constructor took a document that is no mapping as its manifest).
CorruptKinds == {"undecodable", "not_mapping", "not_text"}

\* StateManager.__init__
Construct ==
  /\ pc = "idle"
  /\ LET r == _load_or_init_manifest(durable)
     IN /\ manifest' = r.manifest
        /\ pc' = IF r.raised THEN "idle" ELSE IF r.usable THEN "sm" ELSE "broken"
        /\ call' = [NoCall EXCEPT !.op = "init",
                                  !.ret = IF r.raised THEN "raised" ELSE "ok"]
  /\ UNCHANGED <<durable, chunks, vectors, active, run, last, ld, aux>>

\* the program ends: the object and its in-memory manifest are gone
Exit ==
  /\ pc \in {"sm", "broken"}
  /\ pc' = "idle"
  /\ manifest' = EmptyManifest
  /\ call' = NoCall
  /\ UNCHANGED <<durable, chunks, vectors, active, run, last, ld, aux>>

\* the document is damaged while no program runs (torn write, disk fault)
Corrupt(kind) ==
  /\ pc = "idle"
  /\ durable' = [kind |-> kind, entries |-> {}]
  /\ call' = NoCall
  /\ UNCHANGED <<manifest, chunks, vectors, active, pc, run, last, ld, aux>>

\* an artifact is stored in the cache (Archiver.save_chunks / save_vectors)
CachePut(f, kind) ==
  /\ pc = "idle"
  /\ \/ kind = "chunks" /\ f \notin chunks /\ chunks' = chunks \cup {f}
        /\ UNCHANGED vectors
     \/ kind = "vectors" /\ f \notin vectors /\ vectors' = vectors \cup {f}
        /\ UNCHANGED chunks
  /\ UNCHANGED <<manifest, durable, active, pc, run, last, ld, call, aux>>

\* a status string that is none of FileStatus's six
INVALID_STATUS == "INVALID_STATUS"

\* add_or_update_file stores the status it is given as it is; nothing in it
\* raises for a value that is no FileStatus
AddOrUpdate(f, file_path, status) ==
  /\ pc = "sm"
  /\ status = ERROR => manifest[f].error_count < MaxErrors
  /\ manifest' = add_or_update_file(manifest, f, file_path, status)
  /\ durable' = _save_manifest(manifest')
  /\ call' = [NoCall EXCEPT !.op = "add", !.f = f, !.arg = status]
  /\ UNCHANGED <<chunks, vectors, active, pc, run, last, ld, aux>>

Reset(f) ==
  /\ pc = "sm"
  /\ manifest' = reset_file_status(manifest, f)
  /\ durable' = IF is_file_known(manifest, f) THEN _save_manifest(manifest')
                ELSE durable
  /\ call' = [NoCall EXCEPT !.op = "reset", !.f = f,
                 !.ret = IF is_file_known(manifest, f) THEN "True" ELSE "False"]
  /\ UNCHANGED <<chunks, vectors, active, pc, run, last, ld, aux>>

\* on a manifest that is no mapping, `.get` raises AttributeError
GetStatus(f) ==
  /\ pc \in {"sm", "broken"}
  /\ call' = [NoCall EXCEPT !.op = "get_status", !.f = f,
                 !.ret = IF pc = "broken" THEN "raised"
                         ELSE get_status(manifest, f)]
  /\ UNCHANGED <<manifest, durable, chunks, vectors, active, pc, run, last, ld, aux>>

GetErrorFiles(t) ==
  /\ pc = "sm"
  /\ call' = [NoCall EXCEPT !.op = "get_error_files", !.t = t,
                 !.files = get_error_files(manifest, t)]
  /\ UNCHANGED <<manifest, durable, chunks, vectors, active, pc, run, last, ld, aux>>

Cleanup ==
  /\ pc = "sm"
  /\ LET r == cleanup_orphaned_states(manifest, chunks, vectors)
     IN /\ manifest' = r.manifest
        /\ durable' = IF r.removed > 0 THEN _save_manifest(r.manifest)
                      ELSE durable
        /\ call' = [NoCall EXCEPT !.op = "cleanup", !.n = r.removed]
  /\ UNCHANGED <<chunks, vectors, active, pc, run, last, ld, aux>>

LedgerNext ==
  \/ Construct
  \/ Exit
  \/ \E kind \in CorruptKinds : Corrupt(kind)
  \/ \E f \in Files, kind \in {"chunks", "vectors"} : CachePut(f, kind)
  \/ \E f \in Files, kind \in {"chunks", "vectors"} : CacheEvict(f, kind)
  \/ \E f \in Files, file_path \in {SrcPath, NAPath},
        status \in {PENDING, CHUNKED, EMBEDDED, LOADED, ERROR, INVALID_STATUS} :
       AddOrUpdate(f, file_path, status)
  \/ \E f \in Files : Reset(f)
  \/ \E f \in Files : GetStatus(f)
  \/ \E t \in 0..(MaxErrors + 1) : GetErrorFiles(t)
  \/ Cleanup

LedgerSpec == Init /\ [][LedgerNext]_vars

\* ------------------------------------------- a connector used on its own:
\* a program constructs one connector and calls connect, check_connection,
\* upsert_batch and close on it in any order.  life: "new" = connect was
\* never called, "live" = connect was called, "closed" = close was called
\* last; op, batch, ret, prev: the last call, its batch, what it returned
\* and what the backend held before it; again: the call was a successful
\* upsert of the batch the call before it had upserted successfully.
ConnInit ==
  /\ Idle
  /\ cs = NoCache
  /\ wk = NoWorkers
  /\ wr = NoWrite
  /\ cx \in {[NoConn EXCEPT !.kind = k, !.life = "new", !.op = "new"] : k \in Kinds}
  /\ loader = NoLoader
  /\ cfg = NoCfg
  /\ bp = NoBp

Connect(outcome) ==
  /\ cx.handle /= "ready"
  /\ outcome = "raise_late" => cx.kind \in {"chroma", "qdrant"}
  /\ cx' = [connect(cx, outcome) EXCEPT
              !.life = "live", !.op = "connect", !.batch = {},
              !.ret = IF outcome = "ok" THEN "ok" ELSE "raised",
              !.prev = cx.store, !.again = FALSE]
  /\ UNCHANGED <<runVars, loader, cfg, bp, cs, wk, wr>>

Check(answers) ==
  /\ answers \/ (cx.kind = "qdrant" /\ cx.handle /= "none")
  /\ cx' = [cx EXCEPT !.op = "check", !.batch = {},
                      !.ret = check_connection(cx, answers),
                      !.prev = cx.store, !.again = FALSE]
  /\ UNCHANGED <<runVars, loader, cfg, bp, cs, wk, wr>>

Upsert(batch, fault) ==
  /\ \A i \in batch : cx.store[i] < MaxCopies
  /\ LET r == upsert_batch(cx, batch, fault)
     IN \* an input the call never consulted is fixed to its default
        /\ r.ret = "Exception" \/ ~fault
        /\ cx' = [r.c EXCEPT
                    !.op = "upsert", !.batch = batch, !.ret = r.ret,
                    !.prev = cx.store,
                    !.again = /\ r.ret = "ok"
                              /\ cx.op = "upsert" /\ cx.ret = "ok"
                              /\ cx.batch = batch]
  /\ UNCHANGED <<runVars, loader, cfg, bp, cs, wk, wr>>

Close ==
  /\ cx' = [close(cx) EXCEPT !.life = "closed", !.op = "close", !.batch = {},
                             !.ret = "ok", !.prev = cx.store, !.again = FALSE]
  /\ UNCHANGED <<runVars, loader, cfg, bp, cs, wk, wr>>

ConnNext ==
  \/ \E outcome \in {"ok", "raise_early", "raise_late"} : Connect(outcome)
  \/ \E answers \in BOOLEAN : Check(answers)
  \/ \E batch \in SUBSET Ids, fault \in BOOLEAN : Upsert(batch, fault)
  \/ Close

ConnSpec == ConnInit /\ [][ConnNext]_vars

\* ------------------------------------------ a DatabaseLoader on its own:
\* it is constructed on a configuration, closed and dropped.
\* _initialize_connectors, one target (lines 129-178): no configuration and
\* no type are a `continue`, an unknown or unavailable type is the else
\* branch, and whatever connect() or check_connection() raise is caught.
InitTargetRaises_ConnectPropagates(outcome) ==
  outcome \in {"connect_raises", "check_raises"}

InitTargetRaises(outcome) == FALSE

\* the loop over target_names, in the order of the list
RECURSIVE InitTargets(_, _, _)
InitTargets(st, cfgs, t) ==
  IF t > MaxTargets THEN st
  ELSE IF InitTargetRaises(cfgs[t]) THEN [st EXCEPT !.raised = TRUE]
  ELSE InitTargets(
         [st EXCEPT !.active = IF cfgs[t] = "ok"
                               THEN _initialize_connectors(@, {t}) ELSE @],
         cfgs, t + 1)

\* DatabaseLoader.close: the connectors whose close() is called, and whether
\* an exception leaves the method
DatabaseLoader_close_StopsAtFirstRaise(act, closeFail) ==
  [called |-> {t \in act : \A d \in act \cap closeFail : t <= d},
   raised |-> act \cap closeFail /= {}]

DatabaseLoader_close(act, closeFail) == [called |-> act, raised |-> FALSE]

LoaderBuild(cfgs) ==
  /\ loader.phase = "none"
  /\ LET r == InitTargets([active |-> {}, raised |-> FALSE], cfgs, 1)
     IN loader' = [NoLoader EXCEPT
                     !.phase = IF r.raised THEN "failed" ELSE "built",
                     !.cfgs = cfgs, !.active = r.active, !.raised = r.raised]
  /\ UNCHANGED <<runVars, cx, cfg, bp, cs, wk, wr>>

\* run_process calls _initialize_connectors again on the loader the
\* constructor built: the loop runs over the same dictionary
LoaderReinit(cfgs) ==
  /\ loader.phase = "built"
  /\ LET r == InitTargets([active |-> loader.active, raised |-> FALSE],
                          cfgs, 1)
     IN loader' = [loader EXCEPT !.cfgs = cfgs, !.active = r.active,
                                 !.raised = r.raised, !.reinit = TRUE]
  /\ UNCHANGED <<runVars, cx, cfg, bp, cs, wk, wr>>

LoaderClose(closeFail) ==
  /\ loader.phase = "built"
  /\ closeFail \subseteq loader.active
  /\ LET r == DatabaseLoader_close(loader.active, closeFail)
     IN loader' = [loader EXCEPT
                     !.phase = "closed", !.closeFail = closeFail,
                     !.closed = [t \in Targets |->
                                  IF t \in r.called THEN @[t] + 1 ELSE @[t]],
                     !.closeRaised = r.raised]
  /\ UNCHANGED <<runVars, cx, cfg, bp, cs, wk, wr>>

\* the program is over
LoaderDrop ==
  /\ loader.phase /= "none"
  /\ loader' = NoLoader
  /\ UNCHANGED <<runVars, cx, cfg, bp, cs, wk, wr>>

LoaderNext ==
  \/ \E cfgs \in [Targets -> TargetOutcomes] : LoaderBuild(cfgs)
  \/ \E cfgs \in [Targets -> TargetOutcomes] : LoaderReinit(cfgs)
  \/ \E closeFail \in SUBSET Targets : LoaderClose(closeFail)
  \/ LoaderDrop

LoaderSpec == Init /\ [][LoaderNext]_vars

\* ----------------------------------------------- configuration loading:
\* the inputs are drawn at the start; then either `eless process` builds
\* its configuration or a program calls get_final_config itself.
ConfigInit ==
  /\ Idle
  /\ cs = NoCache
  /\ wk = NoWorkers
  /\ wr = NoWrite
  /\ cx = NoConn
  /\ loader = NoLoader
  /\ bp = NoBp
  /\ \E d \in [Leaves -> Vals], h \in BOOLEAN,
        u \in [Leaves -> {Absent} \cup Vals], o \in [Leaves -> {Absent} \cup Vals] :
       /\ ~h => u = NoLeaves
       /\ cfg = [NoCfg EXCEPT !.default = d, !.hasUser = h, !.user = u, !.opts = o]

\* cli.py 153-257: ConfigLoader(config_path) takes the --config file, when
\* given, in place of the embedded defaults; the options are collected in a
\* dictionary of sections, which is passed as keyword arguments:
\* get_final_config(None, **cli_overrides).
ProcessConfig ==
  /\ cfg.via = "none"
  /\ cfg' = [cfg EXCEPT
               !.via = "cli",
               !.out = get_final_config(
                         IF cfg.hasUser THEN cfg.user ELSE cfg.default,
                         NoLeaves, Absent, cfg.opts)]
  /\ UNCHANGED <<runVars, cx, loader, bp, cs, wk, wr>>

\* ConfigLoader().get_final_config(user_config_path, chunk_size=..)
GetFinalConfig ==
  /\ cfg.via = "none"
  /\ cfg' = [cfg EXCEPT
               !.via = "direct",
               !.out = get_final_config(cfg.default, cfg.user,
                                        cfg.opts["chunking.chunk_size"], NoLeaves)]
  /\ UNCHANGED <<runVars, cx, loader, bp, cs, wk, wr>>

ConfigNext ==
  \/ ProcessConfig
  \/ GetFinalConfig

ConfigSpec == ConfigInit /\ [][ConfigNext]_vars

\* -------------------------------------------------- process_in_batches:
\* the number of items is drawn at the start; each step asks for the
\* recommended size under the pressure level of the moment, takes the next
\* items up to that size and hands them to processor_fn.
BatchInit ==
  /\ Idle
  /\ cs = NoCache
  /\ wk = NoWorkers
  /\ wr = NoWrite
  /\ cx = NoConn
  /\ loader = NoLoader
  /\ cfg = NoCfg
  /\ \E n \in 0..MaxItems : bp = [NoBp EXCEPT !.n = n]

NextBatch(level) ==
  /\ ~bp.done
  /\ bp.pos < bp.n
  /\ LET size == recommended_batch_size(BaseBatch, level)
         hi == Min(bp.n, bp.pos + size)
     IN bp' = [bp EXCEPT !.asked = @ + 1,
                         !.levels = Append(@, level),
                         !.batches = Append(@, <<bp.pos + 1, hi>>),
                         !.calls = @ + 1,
                         !.pos = hi]
  /\ UNCHANGED <<runVars, cx, loader, cfg, cs, wk, wr>>

Finish ==
  /\ ~bp.done
  /\ bp.pos = bp.n
  /\ bp' = [bp EXCEPT !.done = TRUE]
  /\ UNCHANGED <<runVars, cx, loader, cfg, cs, wk, wr>>

BatchNext ==
  \/ \E level \in Levels : NextBatch(level)
  \/ Finish

BatchSpec == BatchInit /\ [][BatchNext]_vars

\* ---------------------------------------------------------------------
\* FaultSpec: StateManager calls whose manifest write fails or is cut
\* short by the end of the process.

\* add_or_update_file whose _save_manifest raises (open() or json.dump
\* fails): the record was changed in memory before the write, the except
\* clause logs and re-raises, and the object lives on
SaveFails(f, file_path, status, at) ==
  /\ pc = "sm"
  /\ at \in {"before_open", "mid_write"}
  /\ status = ERROR => manifest[f].error_count < MaxErrors
  /\ manifest' = add_or_update_file(manifest, f, file_path, status)
  /\ durable' = interrupted_save(durable, manifest', at)
  /\ call' = [NoCall EXCEPT !.op = "add", !.f = f, !.arg = status,
                            !.ret = "raised"]
  /\ UNCHANGED <<chunks, vectors, active, pc, run, last, ld, aux>>

\* the process dies inside the _save_manifest of add_or_update_file: the
\* object is gone, the file is what the write had made of it
Crash(f, file_path, status, at) ==
  /\ pc = "sm"
  /\ status = ERROR => manifest[f].error_count < MaxErrors
  /\ LET m == add_or_update_file(manifest, f, file_path, status) IN
       /\ durable' = interrupted_save(durable, m, at)
       /\ wr' = [kind |-> "crashed", before |-> durable,
                 after |-> _save_manifest(m)]
  /\ manifest' = EmptyManifest
  /\ pc' = "idle"
  /\ call' = [NoCall EXCEPT !.op = "crash", !.f = f, !.arg = status]
  /\ UNCHANGED <<chunks, vectors, active, run, last, ld,
                 cx, loader, cfg, bp, cs, wk>>

FaultStatuses == {EMBEDDED, LOADED}

FaultNext ==
  \/ Construct
  \/ Exit
  \/ \E f \in Files, status \in FaultStatuses : AddOrUpdate(f, SrcPath, status)
  \/ \E f \in Files : GetStatus(f)
  \/ \E f \in Files, status \in FaultStatuses, at \in SavePoints :
       SaveFails(f, SrcPath, status, at)
  \/ \E f \in Files, status \in FaultStatuses, at \in SavePoints :
       Crash(f, SrcPath, status, at)

FaultSpec == Init /\ [][FaultNext]_vars

\* ---------------------------------------------------------------------
\* WorkersSpec: several workers, each holding a StateManager of its own,
\* commit stages to the one manifest file.  Nothing in StateManager locks
\* the file or reads it again after __init__.

\* the fingerprint a worker is processing: each worker has its own
WorkerFile(w) == ((w - 1) % MaxFiles) + 1

\* StateManager(config) in worker w: the manifest is read once
WorkerOpen(w) ==
  /\ ~wk[w].open
  /\ LET r == _load_or_init_manifest(durable) IN
       /\ ~r.raised /\ r.usable
       /\ wk' = [wk EXCEPT ![w] = [open |-> TRUE, manifest |-> r.manifest,
                                   f |-> 0, status |-> ""]]
  /\ UNCHANGED <<runVars, cx, loader, cfg, bp, cs, wr>>

\* add_or_update_file in worker w: its own copy is changed and the whole
\* of it replaces the document
WorkerCommit(w, status) ==
  /\ wk[w].open
  /\ LET m == add_or_update_file(wk[w].manifest, WorkerFile(w), SrcPath,
                                 status) IN
       /\ wk' = [wk EXCEPT ![w] = [open |-> TRUE, manifest |-> m,
                                   f |-> WorkerFile(w), status |-> status]]
       /\ durable' = _save_manifest(m)
  /\ UNCHANGED <<manifest, chunks, vectors, active, pc, run, last, ld, call,
                 cx, loader, cfg, bp, cs, wr>>

\* the worker ends; what it committed stays in the document
WorkerClose(w) ==
  /\ wk[w].open
  /\ wk' = [wk EXCEPT ![w] = [open |-> FALSE, manifest |-> EmptyManifest,
                              f |-> wk[w].f, status |-> wk[w].status]]
  /\ UNCHANGED <<runVars, cx, loader, cfg, bp, cs, wr>>

WorkersNext ==
  \/ \E w \in Workers : WorkerOpen(w)
  \/ \E w \in Workers, status \in {CHUNKED, EMBEDDED, LOADED} :
       WorkerCommit(w, status)
  \/ \E w \in Workers : WorkerClose(w)

WorkersSpec == Init /\ [][WorkersNext]_vars

\* ---------------------------------------------------------------------
\* CacheSpec: artifacts are stored, read and evicted.

\* set(key): the artifact is stored and becomes the most recent
cache_set(k) ==
  /\ k \in Stored(cs.order) \/ Len(cs.order) < MaxKeys
  /\ cs' = [order |-> touch(cs.order, k), op |-> "set",
            before |-> cs.order, asked |-> FALSE, evicted |-> <<>>]
  /\ UNCHANGED <<runVars, cx, loader, cfg, bp, wk, wr>>

\* get(key): a hit updates the last access, a miss changes nothing
cache_get(k) ==
  /\ cs' = [order |-> IF k \in Stored(cs.order)
                      THEN touch(cs.order, k) ELSE cs.order,
            op |-> "get", before |-> cs.order, asked |-> FALSE,
            evicted |-> <<>>]
  /\ UNCHANGED <<runVars, cx, loader, cfg, bp, wk, wr>>

\* evict(), with the answer should_evict() gave just before it
cache_evict ==
  /\ LET r == evict_lru_items(cs.order) IN
       cs' = [order |-> r.order, op |-> "evict", before |-> cs.order,
              asked |-> should_evict(cs.order), evicted |-> r.evicted]
  /\ UNCHANGED <<runVars, cx, loader, cfg, bp, wk, wr>>

CacheNext ==
  \/ \E k \in Keys : cache_set(k)
  \/ \E k \in Keys : cache_get(k)
  \/ cache_evict

CacheSpec == Init /\ [][CacheNext]_vars


\* ------------------------------------------------------------ properties
Rank(status) ==
  CASE status = CHUNKED -> 1
    [] status = EMBEDDED -> 2
    [] status = LOADED -> 3
    [] OTHER -> 0

CliIterated == last.f \in Files
PipeReturned == pc = "done" /\ run.kind = "pipe" /\ run.ended = "normal"
\* the iteration reached the fan-out (the connectors are never empty there)
WriteDone == last.wrote /= {}

\* C1: a hash is set to LOADED, by load_data or by the CLI loop, only if
\* every target of databases.targets accepted every batch holding an entry of
\* that hash.
C1_LoadedOnlyIfEveryConfiguredTargetAccepted ==
  /\ PipeReturned =>
       \A f \in Files :
         (ld.flags[f] /= "none" /\ manifest[f].status = LOADED) => f \notin ld.missed
  /\ (CliIterated /\ last.result = "loaded") => last.acc = Targets

\* C2: a hash for which some connector raised on some batch has its flag
\* false from then on, also after later batches holding it are accepted by
\* every connector, and is EMBEDDED, not LOADED, when load_data returns.
C2_PartialFailureReverts ==
  \A f \in ld.raised :
    /\ ld.flags[f] = "F"
    /\ PipeReturned => manifest[f].status = EMBEDDED

C2_Witness ==
  /\ PipeReturned
  /\ \E f \in ld.raised \cap ld.retried : manifest[f].status = EMBEDDED

\* C3: a record's stage never moves backwards in PENDING < CHUNKED < EMBEDDED
\* < LOADED, except to ERROR or by a reset to PENDING.
C3_StageMonotone ==
  [][\A f \in Files :
       \/ manifest'[f].status \in {ERROR, PENDING}
       \/ manifest[f].status = ERROR
       \/ Rank(manifest'[f].status) >= Rank(manifest[f].status)]_vars

\* C4: the loop does nothing for a file that is LOADED (no chunking, no
\* embedding, no upsert, record unchanged), and a run that starts with every
\* file LOADED issues no upsert.
C4_LoadedIsSkipped ==
  /\ (CliIterated /\ last.st0 = LOADED) =>
       /\ ~last.chunkCalled
       /\ ~last.embedCalled
       /\ last.wrote = {}
       /\ last.recSame
  /\ (run.kind = "cli" /\ run.allLoaded0) => ~run.wroteAny

C4_Witness ==
  /\ pc = "done" /\ run.kind = "cli" /\ run.ended = "normal"
  /\ run.allLoaded0
  /\ last.result = "skipped"

\* C5: a file found at CHUNKED is not chunked again: the cached chunks are
\* embedded and the iteration goes on to the write, unless the chunks are no
\* longer cached, the embedding fails or the process is interrupted.
C5_ResumeFromChunked ==
  (CliIterated /\ last.st0 = CHUNKED) =>
    /\ ~last.chunkCalled
    /\ WriteDone =>
         /\ last.chunkSrc = "cache"
         /\ last.embedCalled
         /\ last.vecSrc = "embedder"
         /\ last.wrote = active
    /\ last.hadChunks =>
         last.result \in {"loaded", "partial", "embed_raised", "embed_empty",
                          "interrupted"}
    /\ ~last.hadChunks => last.result = "no_chunks"

C5_Witness ==
  /\ CliIterated /\ last.st0 = CHUNKED
  /\ last.chunkSrc = "cache" /\ last.embedCalled
  /\ last.result = "loaded" /\ last.st1 = LOADED

C7_EmbeddedWithoutResume ==
  (CliIterated /\ last.st0 = EMBEDDED /\ ~last.resume) =>
    /\ ~last.chunkCalled
    /\ WriteDone => (last.embedCalled /\ last.vecSrc = "embedder")

\* C8: when chunking, embedding or writing a file raises, the file's stage
\* becomes ERROR and its error_count grows by one.
C8_FailureRecordedAsError ==
  (CliIterated /\ last.result \in {"exception", "embed_raised", "partial"}) =>
    /\ last.st1 = ERROR
    /\ last.ec1 = last.ec0 + 1

C10_ErrorIsSkipped ==
  (CliIterated /\ last.st0 = ERROR) =>
    /\ ~last.embedCalled
    /\ last.wrote = {}
    /\ last.st1 /= LOADED

PipeAborted == pc = "done" /\ run.kind = "pipe" /\ run.ended = "aborted"

\* C11: when load_data is aborted (the stream raises or the run is
\* interrupted), the abort changes no record, in memory or on disk, and every
\* hash load_data had seen is still at the stage its embedding committed
\* (EMBEDDED), not LOADED, also when batches holding it were already accepted.
C11_AbortPreservesLedger ==
  [][(pc = "pipe" /\ PipeAborted') =>
       /\ manifest' = manifest
       /\ durable' = durable
       /\ \A f \in Files :
            ld.flags[f] /= "none" => manifest'[f].status = EMBEDDED]_vars

C11_Witness ==
  /\ PipeAborted
  /\ run.wroteAny
  /\ \E f \in Files : ld.flags[f] = "T" /\ manifest[f].status = EMBEDDED

\* C12: whenever a record's stage becomes CHUNKED, chunks of that hash are
\* in the cache at that moment, and whenever a record is set (or reverted)
\* to EMBEDDED, vectors of that hash are in the cache at that moment.
C12_LedgerAfterArtifact ==
  [][\A f \in Files :
       /\ (manifest'[f].status = CHUNKED /\ manifest[f].status /= CHUNKED)
            => load_chunks(chunks', f)
       /\ (manifest'[f].status = EMBEDDED /\ manifest'[f] /= manifest[f])
            => load_vectors(vectors', f)]_vars

\* C13: in every state, a hash that has chunks or vectors in the cache has a
\* record in the ledger.
C13_NoArtifactWithoutRecord ==
  \A f \in chunks \cup vectors : is_file_known(manifest, f)

\* what a StateManager constructed now on the document would hold
Reloaded == _load_or_init_manifest(durable)

\* C14: after an add_or_update_file, a reset_file_status that found the hash
\* or a cleanup_orphaned_states that removed a record, the document on disk
\* holds the in-memory manifest: a StateManager constructed on it loads
\* exactly the same records.
C14_WriteThrough ==
  (\/ call.op = "add"
   \/ call.op = "reset" /\ call.ret = "True"
   \/ call.op = "cleanup" /\ call.n > 0) =>
    /\ ~Reloaded.raised /\ Reloaded.usable
    /\ Reloaded.manifest = manifest

C14_Witness ==
  /\ call.op = "cleanup" /\ call.n > 0
  /\ \E f \in Files : is_file_known(manifest, f)
  /\ Reloaded.manifest = manifest

\* C15: constructing a StateManager on a damaged document (not JSON, JSON
\* that is no mapping, or bytes that are no text) does not raise and gives a
\* usable, empty ledger: every hash unknown and PENDING.
C15_CorruptionIsNonFatal ==
  (call.op = "init" /\ durable.kind \in CorruptKinds) =>
    /\ call.ret = "ok"
    /\ pc = "sm"
    /\ \A f \in Files :
         ~is_file_known(manifest, f) /\ get_status(manifest, f) = PENDING

\* C16: add_or_update_file with ERROR adds one to error_count and sets
\* last_error; with LOADED or EMBEDDED it sets error_count to 0 and last_error
\* to None; with PENDING or CHUNKED it leaves both as they were (0 and None
\* for a record it creates).
C16_ErrorBookkeeping ==
  [][call'.op = "add" =>
       LET b == manifest[call'.f]
           a == manifest'[call'.f]
       IN /\ call'.arg = ERROR =>
               (a.error_count = b.error_count + 1 /\ a.last_error)
          /\ call'.arg \in {LOADED, EMBEDDED} =>
               (a.error_count = 0 /\ ~a.last_error)
          /\ call'.arg \in {PENDING, CHUNKED} =>
               (a.error_count = b.error_count /\ a.last_error = b.last_error)]_vars

C16_Witness ==
  /\ call.op = "add" /\ call.arg = ERROR
  /\ manifest[call.f].error_count = MaxErrors
  /\ manifest[call.f].last_error

\* C17: reset_file_status on a known hash sets PENDING, error_count 0 and
\* last_error None, keeps the path and every other record, saves the
\* manifest and returns True; on an unknown hash it returns False and leaves
\* the manifest and the document as they were.
C17_Reset ==
  [][call'.op = "reset" =>
       LET f == call'.f
       IN IF is_file_known(manifest, f)
          THEN /\ call'.ret = "True"
               /\ manifest'[f].status = PENDING
               /\ manifest'[f].error_count = 0
               /\ ~manifest'[f].last_error
               /\ manifest'[f].path = manifest[f].path
               /\ \A g \in Files \ {f} : manifest'[g] = manifest[g]
               /\ _load_or_init_manifest(durable').manifest = manifest'
          ELSE /\ call'.ret = "False"
               /\ manifest' = manifest
               /\ durable' = durable]_vars

C17_Witness ==
  /\ call.op = "reset" /\ call.ret = "True"
  /\ manifest[call.f].status = PENDING
  /\ manifest[call.f].path = SrcPath
  /\ \E g \in Files : manifest[g].status = ERROR

\* C18: get_status returns PENDING for a hash with no record and the
\* recorded stage otherwise, and changes neither the manifest nor the
\* document: a hash that was only queried stays unknown.
C18_GetStatus ==
  [][(pc = "sm" /\ call'.op = "get_status") =>
       LET f == call'.f
       IN /\ call'.ret = IF is_file_known(manifest, f)
                          THEN manifest[f].status ELSE PENDING
          /\ manifest' = manifest
          /\ durable' = durable
          /\ is_file_known(manifest', f) = is_file_known(manifest, f)]_vars

C18_Witness ==
  /\ pc = "sm" /\ call.op = "get_status" /\ call.ret = PENDING
  /\ ~is_file_known(manifest, call.f)
  /\ \E g \in Files : is_file_known(manifest, g)

\* C19: cleanup_orphaned_states removes exactly the records at CHUNKED,
\* EMBEDDED or LOADED whose hash has no artifact (neither chunks nor
\* vectors) in the cache, keeps every other record as it is, returns the
\* number removed and saves the manifest; no other operation of a live
\* StateManager removes a record.
C19_OrphanCleanup ==
  [][/\ call'.op = "cleanup" =>
          /\ \A f \in Files :
               IF /\ is_file_known(manifest, f)
                  /\ manifest[f].status \in {CHUNKED, EMBEDDED, LOADED}
                  /\ ~load_chunks(chunks, f) /\ ~load_vectors(vectors, f)
               THEN ~is_file_known(manifest', f)
               ELSE manifest'[f] = manifest[f]
          /\ call'.n = Cardinality({f \in Files : is_file_known(manifest, f)
                                       /\ ~is_file_known(manifest', f)})
          /\ call'.n > 0 => _load_or_init_manifest(durable').manifest = manifest'
     /\ (pc = "sm" /\ pc' = "sm" /\ call'.op /= "cleanup") =>
          \A f \in Files : is_file_known(manifest, f) => is_file_known(manifest', f)
    ]_vars

C19_Witness ==
  /\ call.op = "cleanup" /\ call.n = 1
  /\ \E f \in Files : /\ manifest[f].status = EMBEDDED
                        /\ load_chunks(chunks, f) /\ ~load_vectors(vectors, f)
  /\ \E f \in Files : ~is_file_known(manifest, f) /\ f \notin chunks \cup vectors

\* C20 (as the code has it): get_error_files(t) returns exactly the hashes
\* whose error_count is at least t; for t >= 1, a hash just reset or just set
\* to EMBEDDED or LOADED is not among them.
C20_ErrorFilesAtLeast ==
  /\ call.op = "get_error_files" =>
       call.files = {f \in Files : is_file_known(manifest, f)
                                   /\ manifest[f].error_count >= call.t}
  /\ (\/ call.op = "reset" /\ call.ret = "True"
      \/ call.op = "add" /\ call.arg \in {EMBEDDED, LOADED}) =>
       \A t \in 1..(MaxErrors + 1) : call.f \notin get_error_files(manifest, t)

C20_Witness ==
  /\ call.op = "get_error_files" /\ call.t >= 1
  /\ \E f \in call.files : manifest[f].error_count = call.t
  /\ \E g \in Files \ call.files : manifest[g].status = PENDING

\* C20: get_error_files(t) returns exactly the hashes whose error_count
\* exceeds t, and a hash just reset or just set to EMBEDDED or LOADED is not
\* reported.
C20_ErrorFilesExceed ==
  /\ call.op = "get_error_files" =>
       call.files = {f \in Files : is_file_known(manifest, f)
                                   /\ manifest[f].error_count > call.t}
  /\ (\/ call.op = "reset" /\ call.ret = "True"
      \/ call.op = "add" /\ call.arg \in {EMBEDDED, LOADED}) =>
       \A t \in 1..(MaxErrors + 1) : call.f \notin get_error_files(manifest, t)

\* C21: for every connector type, a successful upsert of the batch that the
\* call before it upserted successfully leaves the backend holding what it
\* held after the first of the two.
C21_IdempotentUpsert ==
  (cx.op = "upsert" /\ cx.again) => cx.store = cx.prev

RECURSIVE Concat(_)
Concat(qs) == IF qs = <<>> THEN <<>> ELSE Head(qs) \o Concat(Tail(qs))

\* C22: in load_data the flushed batches followed by the batch being filled
\* are the entries consumed so far, in order; every flushed batch has exactly
\* BatchSize entries except the last one of a finished call, which has
\* between 1 and BatchSize; when load_data returns nothing is left unflushed;
\* and every active connector has received one upsert_batch call per flushed
\* batch, whatever the connectors that raised.
C22_BatchingAndFanOut ==
  run.kind = "pipe" =>
    /\ Concat(ld.sent) \o ld.batch = ld.seen
    /\ \A k \in 1..Len(ld.sent) :
         /\ Len(ld.sent[k]) \in 1..BatchSize
         /\ (k < Len(ld.sent) \/ pc = "pipe") => Len(ld.sent[k]) = BatchSize
    /\ PipeReturned => ld.batch = <<>>
    /\ \A t \in Targets :
         ld.calls[t] = IF t \in active THEN Len(ld.sent) ELSE 0

C22_Witness ==
  /\ PipeReturned
  /\ active = Targets
  /\ Len(ld.sent) = 2 /\ Len(ld.sent[2]) = 1
  /\ ld.raised /= {}

\* C23: DatabaseLoader.close calls close() once on every active connector,
\* also on those after a connector whose close() raised, and no exception
\* leaves it.
C23_CloseReachesEveryConnector ==
  loader.phase = "closed" =>
    /\ ~loader.closeRaised
    /\ \A t \in Targets :
         loader.closed[t] = IF t \in loader.active THEN 1 ELSE 0

C23_Witness ==
  /\ loader.phase = "closed"
  /\ loader.active = Targets
  /\ 1 \in loader.closeFail
  /\ loader.closed[MaxTargets] = 1

\* C25: a target without connection configuration, without type, of an
\* unknown or unavailable type, whose connect() or check_connection() raises
\* or whose check is false is skipped: the constructor of DatabaseLoader does
\* not raise and the active connectors are exactly the targets that connect
\* and pass the check.
C25_InitToleratesFailures ==
  (loader.phase /= "none" /\ ~loader.reinit) =>
    /\ loader.phase /= "failed"
    /\ ~loader.raised
    /\ loader.active = {t \in Targets : loader.cfgs[t] = "ok"}

C25_Witness ==
  /\ loader.phase = "built" /\ ~loader.reinit
  /\ loader.cfgs[1] = "connect_raises"
  /\ loader.cfgs[MaxTargets] = "ok"
  /\ MaxTargets \in loader.active

\* C24: a run (`eless process` or run_process) that has no active connector
\* after initialisation is over at once: no file is taken up, nothing is
\* chunked, embedded or written, load_data consumes no entry, and the ledger,
\* in memory and on disk, and the cache are what they were.
C24_NoBackendIsFatal ==
  [][(pc = "idle" /\ run'.kind \in {"cli", "pipe"} /\ active' = {}) =>
       /\ pc' = "done"
       /\ run'.i = 0 /\ ~run'.wroteAny /\ run'.ok = {} /\ run'.bad = {}
       /\ last' = NoLast
       /\ ld' = NoLoad
       /\ manifest' = manifest
       /\ durable' = durable
       /\ chunks' = chunks
       /\ vectors' = vectors]_vars

C24_Witness ==
  /\ pc = "done"
  /\ run.kind = "pipe" /\ run.ended = "nodb"
  /\ active = {}
  /\ \E f \in Files : is_file_known(manifest, f) /\ manifest[f].status = EMBEDDED

\* C26: on a connector of any type on which connect was never called, or on
\* which close was called last, check_connection returns False and
\* upsert_batch raises ConnectionError and leaves the backend as it was, for
\* every batch, the empty one included.
C26_NotConnectedRefuses ==
  cx.life \in {"new", "closed"} =>
    /\ cx.handle = "none"
    /\ cx.op = "check" => cx.ret = "False"
    /\ cx.op = "upsert" => (cx.ret = "ConnectionError" /\ cx.store = cx.prev)

C26_Witness ==
  /\ cx.life = "closed"
  /\ cx.op = "upsert" /\ cx.batch = {} /\ cx.ret = "ConnectionError"
  /\ cx.store /= EmptyStore

\* C27: when run_resume has returned with every backend connected, every
\* file an earlier run had taken up (it has a ledger record or a cached
\* artifact) is at LOADED.
C27_ResumeCompletes ==
  (pc = "done" /\ run.kind = "resume" /\ active = Targets) =>
    \A f \in Files :
      (is_file_known(manifest, f) \/ f \in chunks \cup vectors) =>
        get_status(manifest, f) = LOADED

\* C28: add_or_update_file raises for a status that is none of the six
\* stages, and no record of the ledger, in memory or in the document, has a
\* stage outside them.
C28_OnlyDefinedStages ==
  /\ (call.op = "add" /\ call.arg \notin Stages) => call.ret = "raised"
  /\ \A f \in Files : is_file_known(manifest, f) => manifest[f].status \in Stages
  /\ \A e \in durable.entries : e[2].status \in Stages

\* C29: in the configuration `eless process` obtains from get_final_config,
\* every key given on the command line has the command line's value, and
\* every other key has the value of the user's file if the file has it and
\* the default otherwise.
C29_OverridePrecedence ==
  cfg.via = "cli" =>
    \A l \in Leaves :
      cfg.out[l] = IF cfg.opts[l] /= Absent THEN cfg.opts[l]
                   ELSE IF cfg.user[l] /= Absent THEN cfg.user[l]
                   ELSE cfg.default[l]

BatchLen(b) == b[2] - b[1] + 1

\* C30: process_in_batches calls processor_fn once per batch and asks for the
\* recommended size once before each batch; a batch holds as many items as
\* recommended at that moment (fewer only when the input ends) and is never
\* changed once dispatched; the batches are consecutive and, when the call
\* is over, cover the input from the first item to the last; under CRITICAL
\* pressure throughout (base 100, reduction 4) no batch has more than 25.
C30_AdaptiveBatchesCoverInput ==
  /\ [](/\ bp.calls = Len(bp.batches)
        /\ bp.asked = Len(bp.batches)
        /\ \A k \in 1..Len(bp.batches) :
             /\ bp.batches[k][1] = IF k = 1 THEN 1 ELSE bp.batches[k - 1][2] + 1
             /\ BatchLen(bp.batches[k]) >= 1
             /\ BatchLen(bp.batches[k]) <=
                  recommended_batch_size(BaseBatch, bp.levels[k])
             /\ k < Len(bp.batches) =>
                  BatchLen(bp.batches[k]) =
                    recommended_batch_size(BaseBatch, bp.levels[k])
        /\ bp.pos = IF bp.batches = <<>> THEN 0
                    ELSE bp.batches[Len(bp.batches)][2]
        /\ bp.done => bp.pos = bp.n
        /\ (\A k \in 1..Len(bp.levels) : bp.levels[k] = "CRITICAL") =>
             \A k \in 1..Len(bp.batches) : BatchLen(bp.batches[k]) <= 25)
  /\ [][\A k \in 1..Len(bp.batches) : bp'.batches[k] = bp.batches[k]]_vars

C30_Witness ==
  /\ bp.done
  /\ bp.n = MaxItems
  /\ Len(bp.batches) = 3
  /\ \A k \in 1..3 : bp.levels[k] = "CRITICAL"

\* C31: with a ceiling of CacheMaxFiles artifacts and more than that stored,
\* should_evict() is true and evict() removes at least the excess; what it
\* removes is the least recently accessed artifacts in that order (a get
\* or a set makes its artifact the most recent), what it returns is the
\* keys it removed, it stops when the usage is at the target watermark, and
\* it removes nothing when the usage was at or below the watermark.
C31_EvictionCorrect ==
  LET n == Len(cs.before)
      e == Len(cs.evicted)
      w == target_watermark(CacheMaxFiles) IN
  /\ cs.op = "evict" =>
       /\ n > CacheMaxFiles => cs.asked /\ e >= n - CacheMaxFiles
       /\ e <= n
       /\ cs.evicted = SubSeq(cs.before, 1, e)
       /\ cs.order = SubSeq(cs.before, e + 1, n)
       /\ n > w => Len(cs.order) = w
       /\ n <= w => cs.evicted = <<>>
  /\ cs.op = "get" /\ cs.order /= cs.before =>
       /\ Stored(cs.order) = Stored(cs.before)
       /\ cs.order = touch(cs.before, cs.order[Len(cs.order)])
  /\ Len(cs.order) = Cardinality(Stored(cs.order))

C31_Witness ==
  /\ cs.op = "evict"
  /\ Len(cs.before) = CacheMaxFiles + 2
  /\ cs.asked
  /\ Len(cs.evicted) >= 2
  /\ cs.before[1] > cs.before[2]

\* C32: when the process dies inside a manifest write, the ledger the next
\* start loads is the ledger of the document before that write or the one
\* after it, and every other file that was LOADED before is LOADED in it.
C32_CrashAtomic ==
  call.op = "crash" =>
    LET got    == _load_or_init_manifest(durable).manifest
        before == _load_or_init_manifest(wr.before).manifest
        after  == _load_or_init_manifest(wr.after).manifest IN
    /\ got \in {before, after}
    /\ \A f \in Files :
         before[f].status = LOADED /\ f /= call.f => got[f].status = LOADED

\* C34: when the write inside add_or_update_file fails, the call raises and
\* the manifest in memory is the one the durable document holds.
C34_FailedWriteNoDivergence ==
  call.op = "add" /\ call.ret = "raised" =>
    manifest = _load_or_init_manifest(durable).manifest

\* C33: whatever the interleaving of the workers, the stage each worker
\* committed last for its fingerprint is in the durable manifest.
C33_NoLostUpdate ==
  \A w \in Workers :
    wk[w].f /= 0 =>
      _load_or_init_manifest(durable).manifest[wk[w].f].status = wk[w].status

\* C35: in every record the StateManager operations have made, error_count
\* is a natural number, and it is 0 exactly when last_error is None.
C35_ErrorBookkeeping ==
  \A f \in Files :
    is_file_known(manifest, f) =>
      /\ manifest[f].error_count \in Nat
      /\ manifest[f].error_count = 0 <=> ~manifest[f].last_error

C35_Witness ==
  /\ call.op = "reset" /\ call.ret = "True"
  /\ manifest[call.f].status = PENDING
  /\ ~manifest[call.f].last_error
  /\ \E g \in Files : /\ g /= call.f
                      /\ manifest[g].error_count = MaxErrors
                      /\ manifest[g].last_error

\* C36: when load_data has returned, every hash the stream held has
\* error_count 0 and last_error None, whether it was set to LOADED or
\* reverted to EMBEDDED, and get_error_files does not return it for any
\* threshold of at least 1.
C36_WriteFailuresNotCounted ==
  PipeReturned =>
    \A f \in Files :
      ld.flags[f] /= "none" =>
        /\ manifest[f].status = IF ld.flags[f] = "T" THEN LOADED ELSE EMBEDDED
        /\ manifest[f].error_count = 0
        /\ ~manifest[f].last_error
        /\ \A t \in 1..(MaxErrors + 1) : f \notin get_error_files(manifest, t)

C36_Witness ==
  /\ PipeReturned
  /\ \E f \in ld.raised : /\ manifest[f].status = EMBEDDED
                          /\ manifest[f].error_count = 0
  /\ \E g \in Files : ld.flags[g] = "T" /\ manifest[g].status = LOADED

\* C37: when load_data has returned, the record of every hash the stream
\* held still has the path of the source file.
C37_SourcePathPreserved ==
  PipeReturned =>
    \A f \in Files : ld.flags[f] /= "none" => manifest[f].path = SrcPath

\* C38: when the CLI loop has gone through every file, each file was
\* counted once, as a success or as an error: the two counters of the
\* summary add up to the number of files found.
C38_SummaryAccountsForEveryFile ==
  (pc = "done" /\ run.kind = "cli" /\ run.ended = "normal") =>
    run.success_count + run.error_count = MaxFiles

\* C39: after every call of _initialize_connectors, the constructor's or a
\* later one, the active connectors are exactly the targets that connected
\* and passed the check in that call.
C39_ActiveReflectsLatestInit ==
  loader.phase \in {"built", "closed"} =>
    loader.active = {t \in Targets : loader.cfgs[t] = "ok"}

====
